---------------------------- MODULE Spec2Model ----------------------------
(***************************************************************************)
(* Model of backend/batch-fix-types.py: the batch rewriter that walks      *)
(* src/api/routes and applies four regular-expression patterns to every    *)
(* .ts file that is not a .test.ts file.                                   *)
(*                                                                         *)
(* A text is a sequence of tokens.  Every token stands for the literal     *)
(* characters it spells.  A token is either a pure word (only \w           *)
(* characters) or starts with a non-word character that is not the start   *)
(* of any literal the patterns look for, so every match of the script's    *)
(* regular expressions on the spelled-out characters starts and ends on    *)
(* token boundaries, and \w+ captures exactly a maximal run of word        *)
(* tokens.                                                                 *)
(***************************************************************************)
EXTENDS Naturals, Sequences, FiniteSets

VARIABLES
    exists,       \* routes_dir exists on disk
    disk,         \* path -> text, the files of the backend tree
    unreadable,   \* paths whose open(filepath, 'r') raises
    unwritable,   \* paths whose open(filepath, 'w') raises
    pc,           \* position of the script
    todo,         \* files os.walk has still to yield, in its order
    filepath,     \* argument of the running fix_api_route_file call
    original,     \* local `original`
    content,      \* local `content`
    fixed_count,  \* module variable fixed_count
    out,          \* lines printed by this invocation
    run,          \* number of the current invocation of the script
    reads,        \* files opened for reading by this invocation, in order
    writes,       \* files overwritten by this invocation, in order
    pre,          \* the disk when this invocation started
    first         \* the disk before the first invocation

vars == <<exists, disk, unreadable, unwritable, pc, todo, filepath, original,
          content, fixed_count, out, run, reads, writes, pre, first>>

(***************************************************************************)
(* Bounds                                                                  *)
(***************************************************************************)
MaxFrags == 3

MaxFiles == 3

MaxFaults == 1

MaxRuns == 2

(***************************************************************************)
(* Tokens                                                                  *)
(***************************************************************************)
WordTokens ==
    {"request", "params", "query", "body", "id", "catch", "error", "message",
     "export", "interface"}

IsWord(t) == t \in WordTokens

\* '\ninterface QueryParams {\n    [key: string]: string | undefined;\n}\n\n'
interface_def ==
    <<"\n", "interface", " QueryParams",
      " {\n    [key: string]: string | undefined;\n}\n\n">>

RequestQuery == <<"request", ".", "query">>

InterfaceMarker == <<"interface", " QueryParams">>

ExportAsyncFunction == <<"export", " async function">>

ErrorMessage == <<"error", ".", "message">>

CatchOpen == <<"catch", " (error) {">>

(***************************************************************************)
(* String and regular-expression primitives                                *)
(***************************************************************************)
\* lit occurs in s at position i
OccursAt(s, lit, i) ==
    /\ i >= 1
    /\ i + Len(lit) - 1 <= Len(s)
    /\ SubSeq(s, i, i + Len(lit) - 1) = lit

\* first position of lit in s, 0 when there is none (str.find, re.search)
Find(s, lit) ==
    IF \E i \in 1..Len(s) : OccursAt(s, lit, i)
    THEN CHOOSE i \in 1..Len(s) :
            /\ OccursAt(s, lit, i)
            /\ \A j \in 1..(i - 1) : ~OccursAt(s, lit, j)
    ELSE 0

\* `lit in s`
Contains(s, lit) == Find(s, lit) # 0

\* last index of the maximal run of word tokens starting at i (greedy \w+)
RECURSIVE WordRunEnd(_, _)
WordRunEnd(s, i) ==
    IF i + 1 <= Len(s) /\ IsWord(s[i + 1]) THEN WordRunEnd(s, i + 1) ELSE i

\* request\.<prop>\.(\w+) matches at position i
MatchAt(s, i, prop) ==
    /\ i + 4 <= Len(s)
    /\ s[i] = "request"
    /\ s[i + 1] = "."
    /\ s[i + 2] = prop
    /\ s[i + 3] = "."
    /\ IsWord(s[i + 4])

\* the replacement template of each pattern, \1 = cap
Template(prop, cap) ==
    IF prop = "params"
    THEN <<"(", "request", ".", "params", " as { ">> \o cap
            \o <<": string })", ".">> \o cap
    ELSE IF prop = "query"
    THEN <<"(", "request", ".", "query", " as QueryParams)", ".">> \o cap
    ELSE <<"(", "request", ".", "body", " as Record<string, unknown>)", ".">>
            \o cap

\* re.sub(r'request\.<prop>\.(\w+)', template, s), scanning from position i
RECURSIVE ReSubFrom(_, _, _)
ReSubFrom(s, i, prop) ==
    IF i > Len(s) THEN << >>
    ELSE IF MatchAt(s, i, prop)
    THEN LET j == WordRunEnd(s, i + 4)
         IN  Template(prop, SubSeq(s, i + 4, j)) \o ReSubFrom(s, j + 1, prop)
    ELSE <<s[i]>> \o ReSubFrom(s, i + 1, prop)

ReSubAccess(s, prop) == ReSubFrom(s, 1, prop)

\* span.replace('error.message', '(error as Error).message'), from position i
RECURSIVE ReplaceFrom(_, _)
ReplaceFrom(s, i) ==
    IF i > Len(s) THEN << >>
    ELSE IF OccursAt(s, ErrorMessage, i)
    THEN <<"(error as Error)", ".", "message">> \o ReplaceFrom(s, i + 3)
    ELSE <<s[i]>> \o ReplaceFrom(s, i + 1)

ReplaceErrorMessage(s) == ReplaceFrom(s, 1)

\* end of the match of catch \(error\) \{[\s\S]*?error\.message at i, 0 if none
CatchMatchEnd(s, i) ==
    IF /\ OccursAt(s, CatchOpen, i)
       /\ \E k \in (i + 2)..Len(s) : OccursAt(s, ErrorMessage, k)
    THEN (CHOOSE k \in (i + 2)..Len(s) :
             /\ OccursAt(s, ErrorMessage, k)
             /\ \A j \in (i + 2)..(k - 1) : ~OccursAt(s, ErrorMessage, j)) + 2
    ELSE 0

\* re.sub of pattern 4 with the lambda, scanning from position i
RECURSIVE ReSubCatchFrom(_, _)
ReSubCatchFrom(s, i) ==
    IF i > Len(s) THEN << >>
    ELSE LET e == CatchMatchEnd(s, i)
         IN  IF e # 0
             THEN ReplaceErrorMessage(SubSeq(s, i, e)) \o ReSubCatchFrom(s, e + 1)
             ELSE <<s[i]>> \o ReSubCatchFrom(s, i + 1)

(***************************************************************************)
(* The four patterns of fix_api_route_file                                 *)
(***************************************************************************)
Pattern1(s) == ReSubAccess(s, "params")

\* an injection at the top of the file instead of before the anchor
InjectAtTop(s) ==
    IF ~Contains(s, InterfaceMarker) /\ Contains(s, ExportAsyncFunction)
    THEN interface_def \o s
    ELSE s

\* the injection of interface_def before the first 'export async function'
Inject(s) ==
    IF ~Contains(s, InterfaceMarker)
    THEN LET m == Find(s, ExportAsyncFunction)
         IN  IF m # 0
             THEN SubSeq(s, 1, m - 1) \o interface_def \o SubSeq(s, m, Len(s))
             ELSE s
    ELSE s

Pattern2(s) ==
    IF Contains(s, RequestQuery) THEN ReSubAccess(Inject(s), "query") ELSE s

Pattern3(s) == ReSubAccess(s, "body")

\* a rewrite that forgets the catch prefix of pattern 4
Pattern4AnyErrorMessage(s) == ReplaceErrorMessage(s)

Pattern4(s) == ReSubCatchFrom(s, 1)

\* the text fix_api_route_file computes from the text it read
FixText(s) == Pattern4(Pattern3(Pattern2(Pattern1(s))))

(***************************************************************************)
(* Files                                                                   *)
(***************************************************************************)
\* file.endswith(suffix)
EndsWith(name, suffix) ==
    /\ Len(suffix) <= Len(name)
    /\ SubSeq(name, Len(name) - Len(suffix) + 1, Len(name)) = suffix

DotTs == <<".", "t", "s">>

DotTestTs == <<".", "t", "e", "s", "t", ".", "t", "s">>

\* a filter that forgets the test-file exclusion
IsCandidateAnyTs(name) == EndsWith(name, DotTs)

\* file.endswith('.ts') and not file.endswith('.test.ts')
IsCandidate(name) == EndsWith(name, DotTs) /\ ~EndsWith(name, DotTestTs)

\* BACKEND_DIR / 'src' / 'api' / 'routes'
routes_dir == <<"src", "api", "routes">>

IsPrefix(p, q) == Len(p) <= Len(q) /\ SubSeq(q, 1, Len(p)) = p

\* the file of path p lies under routes_dir
Under(p) == IsPrefix(routes_dir, p.dir)

File(dir, name) == [dir |-> dir, name |-> name]

ATs == <<"a", ".", "t", "s">>

ATestTs == <<"a", ".", "t", "e", "s", "t", ".", "t", "s">>

BJs == <<"b", ".", "j", "s">>

TestTs == <<"t", "e", "s", "t", ".", "t", "s">>

\* the files a backend tree may hold: route files, a nested route directory
\* and a file beside routes_dir
AllPaths ==
    { File(routes_dir, ATs),
      File(routes_dir, ATestTs),
      File(routes_dir, BJs),
      File(routes_dir \o <<"v1">>, ATs),
      File(routes_dir \o <<"v1">>, TestTs),
      File(<<"src", "api">>, ATs) }

NoFile == [dir |-> << >>, name |-> << >>]

\* the orders in which os.walk (top-down) can yield the files under routes_dir
WalkOrders ==
    IF exists
    THEN LET S == {p \in DOMAIN disk : Under(p)}
             n == Cardinality(S)
         IN  { o \in [1..n -> S] :
                 /\ \A i, j \in 1..n : i # j => o[i] # o[j]
                 /\ \A i, j \in 1..n :
                       (o[i].dir # o[j].dir /\ IsPrefix(o[i].dir, o[j].dir))
                          => i < j }
    ELSE { << >> }

(***************************************************************************)
(* Inputs                                                                  *)
(***************************************************************************)
Frags ==
    { <<"request", ".", "params", ".">>,
      <<"request", ".", "query">>,
      <<"request", ".", "body", ".">>,
      <<".">>,
      <<"id">>,
      <<";">>,
      CatchOpen,
      ErrorMessage,
      <<"}">>,
      ExportAsyncFunction,
      InterfaceMarker,
      <<"request", ".", "query", ".">> }

RECURSIVE TextsOf(_)
TextsOf(n) ==
    IF n = 0 THEN { << >> }
    ELSE LET T == TextsOf(n - 1)
         IN  T \cup { f \o t : f \in Frags, t \in T }

SmallTexts ==
    { <<"id", ";">>,
      <<"request", ".", "params", ".", "id", ";",
        "request", ".", "query", ".", "id", ";">> }

EngineFile == File(routes_dir, ATs)

(***************************************************************************)
(* Initial states                                                          *)
(***************************************************************************)
InitRest ==
    /\ pc = "start"
    /\ todo = << >>
    /\ filepath = NoFile
    /\ original = << >>
    /\ content = << >>
    /\ fixed_count = 0
    /\ out = << >>
    /\ run = 1
    /\ reads = << >>
    /\ writes = << >>
    /\ pre = disk
    /\ first = disk

\* a backend tree of a few small files, some of which may fail to open
Init ==
    /\ exists \in BOOLEAN
    /\ \E S \in SUBSET AllPaths :
          /\ Cardinality(S) <= MaxFiles
          /\ ~exists => \A p \in S : ~Under(p)
          /\ disk \in [S -> SmallTexts]
    /\ unreadable \in SUBSET DOMAIN disk
    /\ unwritable \in SUBSET DOMAIN disk
    /\ Cardinality(unreadable) + Cardinality(unwritable) <= MaxFaults
    /\ InitRest

\* one route file of any text, every open succeeds
EngineInit ==
    /\ exists = TRUE
    /\ disk \in [{EngineFile} -> TextsOf(MaxFrags)]
    /\ unreadable = {}
    /\ unwritable = {}
    /\ InitRest

(***************************************************************************)
(* The script                                                              *)
(***************************************************************************)
\* for root, dirs, files in os.walk(routes_dir)
Walk ==
    /\ pc = "start"
    /\ todo' \in WalkOrders
    /\ pc' = "loop"
    /\ UNCHANGED <<exists, disk, unreadable, unwritable, filepath, original,
                   content, fixed_count, out, run, reads, writes, pre, first>>

\* the suffix test of the loop and the call of fix_api_route_file
NextFile ==
    /\ pc = "loop"
    /\ todo # << >>
    /\ IF IsCandidate(Head(todo).name)
       THEN /\ filepath' = Head(todo)
            /\ pc' = "read"
            /\ todo' = todo
       ELSE /\ todo' = Tail(todo)
            /\ UNCHANGED <<filepath, pc>>
    /\ UNCHANGED <<exists, disk, unreadable, unwritable, original, content,
                   fixed_count, out, run, reads, writes, pre, first>>

\* a read guarded by try/except that skips the file it cannot open
ReadFileSkipsOnError ==
    /\ pc = "read"
    /\ IF filepath \in unreadable
       THEN /\ pc' = "loop"
            /\ todo' = Tail(todo)
            /\ UNCHANGED <<original, content, reads>>
       ELSE /\ content' = disk[filepath]
            /\ original' = disk[filepath]
            /\ reads' = Append(reads, filepath)
            /\ pc' = "p1"
            /\ todo' = todo
    /\ UNCHANGED <<exists, disk, unreadable, unwritable, filepath,
                   fixed_count, out, run, writes, pre, first>>

\* with open(filepath, 'r') as f: content = f.read(); original = content
ReadFile ==
    /\ pc = "read"
    /\ IF filepath \in unreadable
       THEN /\ pc' = "aborted"
            /\ UNCHANGED <<original, content, reads>>
       ELSE /\ content' = disk[filepath]
            /\ original' = disk[filepath]
            /\ reads' = Append(reads, filepath)
            /\ pc' = "p1"
    /\ UNCHANGED <<exists, disk, unreadable, unwritable, todo, filepath,
                   fixed_count, out, run, writes, pre, first>>

\* Pattern 1: re.sub of request\.params\.(\w+)
ApplyPattern1 ==
    /\ pc = "p1"
    /\ content' = Pattern1(content)
    /\ pc' = "p2"
    /\ UNCHANGED <<exists, disk, unreadable, unwritable, todo, filepath,
                   original, fixed_count, out, run, reads, writes, pre, first>>

\* Pattern 2: the guard 'request.query' in content and the insertion
ApplyPattern2Inject ==
    /\ pc = "p2"
    /\ IF Contains(content, RequestQuery)
       THEN content' = Inject(content) /\ pc' = "p2s"
       ELSE content' = content /\ pc' = "p3"
    /\ UNCHANGED <<exists, disk, unreadable, unwritable, todo, filepath,
                   original, fixed_count, out, run, reads, writes, pre, first>>

\* Pattern 2: re.sub of request\.query\.(\w+)
ApplyPattern2Replace ==
    /\ pc = "p2s"
    /\ content' = ReSubAccess(content, "query")
    /\ pc' = "p3"
    /\ UNCHANGED <<exists, disk, unreadable, unwritable, todo, filepath,
                   original, fixed_count, out, run, reads, writes, pre, first>>

\* Pattern 3: re.sub of request\.body\.(\w+)
ApplyPattern3 ==
    /\ pc = "p3"
    /\ content' = Pattern3(content)
    /\ pc' = "p4"
    /\ UNCHANGED <<exists, disk, unreadable, unwritable, todo, filepath,
                   original, fixed_count, out, run, reads, writes, pre, first>>

\* Pattern 4: re.sub over the catch spans
ApplyPattern4 ==
    /\ pc = "p4"
    /\ content' = Pattern4(content)
    /\ pc' = "cmp"
    /\ UNCHANGED <<exists, disk, unreadable, unwritable, todo, filepath,
                   original, fixed_count, out, run, reads, writes, pre, first>>

\* a write-back without the `if content != original` test
WriteBackAlways ==
    /\ pc = "cmp"
    /\ IF filepath \in unwritable
       THEN /\ pc' = "aborted"
            /\ UNCHANGED <<disk, writes, fixed_count, out, todo>>
       ELSE /\ disk' = [disk EXCEPT ![filepath] = content]
            /\ writes' = Append(writes, filepath)
            /\ fixed_count' = fixed_count + 1
            /\ out' = Append(out, <<"Fixed", filepath>>)
            /\ todo' = Tail(todo)
            /\ pc' = "loop"
    /\ UNCHANGED <<exists, unreadable, unwritable, filepath, original,
                   content, run, reads, pre, first>>

\* if content != original: write, return True; fixed_count += 1; print
WriteBack ==
    /\ pc = "cmp"
    /\ IF content # original
       THEN IF filepath \in unwritable
            THEN /\ pc' = "aborted"
                 /\ UNCHANGED <<disk, writes, fixed_count, out, todo>>
            ELSE /\ disk' = [disk EXCEPT ![filepath] = content]
                 /\ writes' = Append(writes, filepath)
                 /\ fixed_count' = fixed_count + 1
                 /\ out' = Append(out, <<"Fixed", filepath>>)
                 /\ todo' = Tail(todo)
                 /\ pc' = "loop"
       ELSE /\ todo' = Tail(todo)
            /\ pc' = "loop"
            /\ UNCHANGED <<disk, writes, fixed_count, out>>
    /\ UNCHANGED <<exists, unreadable, unwritable, filepath, original,
                   content, run, reads, pre, first>>

\* print(f"\nTotal files fixed: {fixed_count}")
Report ==
    /\ pc = "loop"
    /\ todo = << >>
    /\ out' = Append(out, <<"Total", fixed_count>>)
    /\ pc' = "done"
    /\ UNCHANGED <<exists, disk, unreadable, unwritable, todo, filepath,
                   original, content, fixed_count, run, reads, writes, pre,
                   first>>

\* the script is invoked again on the tree a completed invocation left
Rerun ==
    /\ pc = "done"
    /\ run < MaxRuns
    /\ run' = run + 1
    /\ pc' = "start"
    /\ todo' = << >>
    /\ filepath' = NoFile
    /\ original' = << >>
    /\ content' = << >>
    /\ fixed_count' = 0
    /\ out' = << >>
    /\ reads' = << >>
    /\ writes' = << >>
    /\ pre' = disk
    /\ UNCHANGED <<exists, disk, unreadable, unwritable, first>>

(***************************************************************************)
(* Vocabulary of the properties                                            *)
(***************************************************************************)
Range(s) == { s[i] : i \in 1..Len(s) }

Count(s, lit) == Cardinality({ i \in 1..Len(s) : OccursAt(s, lit, i) })

HasMatch(s, prop) == \E i \in 1..Len(s) : MatchAt(s, i, prop)

\* the four trigger substrings: .params.  .query  .body.  catch (error)
HasParamsTrigger(s) == Contains(s, <<".", "params", ".">>)

HasQueryTrigger(s) == Contains(s, <<".", "query">>)

HasBodyTrigger(s) == Contains(s, <<".", "body", ".">>)

HasCatchTrigger(s) == Contains(s, CatchOpen)

NoTrigger(s) ==
    /\ ~HasParamsTrigger(s)
    /\ ~HasQueryTrigger(s)
    /\ ~HasBodyTrigger(s)
    /\ ~HasCatchTrigger(s)

InRules == pc \in {"p1", "p2", "p2s", "p3", "p4", "cmp"}

\* the braces open before position i, innermost last: TRUE for the brace of
\* a catch (error) { block, FALSE for any other
RECURSIVE BraceStack(_, _)
BraceStack(s, i) ==
    IF i <= 1 THEN << >>
    ELSE LET st == BraceStack(s, i - 1)
             t  == s[i - 1]
         IN  IF t = " (error) {"
             THEN Append(st, i >= 3 /\ s[i - 2] = "catch")
             ELSE IF t = "}" /\ st # << >>
             THEN SubSeq(st, 1, Len(st) - 1)
             ELSE st

\* position i lies inside a catch (error) { ... } block
InCatch(s, i) == TRUE \in Range(BraceStack(s, i))

\* the bare error.message occurrences outside, and inside, catch blocks
BareOutside(s) ==
    { i \in 1..Len(s) : OccursAt(s, ErrorMessage, i) /\ ~InCatch(s, i) }

BareInside(s) ==
    { i \in 1..Len(s) : OccursAt(s, ErrorMessage, i) /\ InCatch(s, i) }

(***************************************************************************)
(* C1                                                                      *)
(***************************************************************************)
\* C1: a text with none of the four trigger substrings goes through every
\* pattern unchanged, fix_api_route_file returns False for it, the file is
\* not written, not counted and not printed as fixed.
C1_NoTriggerUnchanged ==
    /\ (InRules /\ NoTrigger(original)) => content = original
    /\ \A p \in DOMAIN disk :
          NoTrigger(pre[p]) =>
             /\ disk[p] = pre[p]
             /\ p \notin Range(writes)
             /\ <<"Fixed", p>> \notin Range(out)
    /\ (\A p \in Range(reads) : NoTrigger(pre[p])) => fixed_count = 0

C1_Witness ==
    /\ pc = "done"
    /\ EngineFile \in Range(reads)
    /\ NoTrigger(pre[EngineFile])
    /\ Contains(pre[EngineFile], ErrorMessage)
    /\ Contains(pre[EngineFile], ExportAsyncFunction)
    /\ out = << <<"Total", 0>> >>

(***************************************************************************)
(* C2                                                                      *)
(***************************************************************************)
\* C2: pattern 4 leaves every error.message outside a catch block untouched,
\* also one that follows a catch block that closed without error.message.
C2_OutsideUntouched ==
    [][pc = "p4" => Cardinality(BareOutside(content'))
                       = Cardinality(BareOutside(content))]_vars

(***************************************************************************)
(* C3                                                                      *)
(***************************************************************************)
\* C3: for a text with request.params.<word> accesses (and no trigger of the
\* other patterns) one run rewrites every access, leaves no bare access and
\* reports changed; a second run changes nothing.
C3_Rule1Idempotent ==
    LET t == first[EngineFile]
    IN  ( /\ pc = "done"
          /\ HasMatch(t, "params")
          /\ ~HasQueryTrigger(t) /\ ~HasBodyTrigger(t) /\ ~HasCatchTrigger(t) )
        => /\ run = 1 => /\ EngineFile \in Range(writes)
                         /\ ~HasMatch(disk[EngineFile], "params")
           /\ run = 2 => /\ writes = << >>
                         /\ disk = pre

(***************************************************************************)
(* C4                                                                      *)
(***************************************************************************)
\* C4: two runs in succession never insert the interface QueryParams block
\* twice, and the second run (injection and request.query.<word> rewrite)
\* leaves the text as the first run wrote it.
C4_Rule2Idempotent ==
    LET t == first[EngineFile]
    IN  ( /\ pc = "done"
          /\ run = 2
          /\ HasQueryTrigger(t)
          /\ ~HasParamsTrigger(t) /\ ~HasBodyTrigger(t) /\ ~HasCatchTrigger(t) )
        => /\ Count(disk[EngineFile], interface_def)
                 <= Count(t, interface_def) + 1
           /\ writes = << >>
           /\ disk = pre

\* the half of C4 that the code keeps: over all runs the block is inserted
\* at most once
C4_InjectedAtMostOnce ==
    \A p \in DOMAIN disk :
        Count(disk[p], interface_def) <= Count(first[p], interface_def) + 1

(***************************************************************************)
(* C5                                                                      *)
(***************************************************************************)
\* C5: when routes_dir does not exist the run aborts with an error instead
\* of completing with a count of 0.
C5_MissingRootAborts == (~exists /\ pc # "start") => pc = "aborted"

(***************************************************************************)
(* C6                                                                      *)
(***************************************************************************)
\* C6: between files and at the end, a file that was processed is
\* overwritten (with the text after all four patterns) and counted iff that
\* text differs from the text read; no other file is written; fixed_count,
\* the Fixed lines and the final total all equal the files overwritten.
C6_WriteBackAgrees ==
    pc \in {"loop", "done"} =>
       /\ \A p \in Range(reads) :
             /\ p \in Range(writes) <=> FixText(pre[p]) # pre[p]
             /\ disk[p] = FixText(pre[p])
       /\ \A p \in DOMAIN disk \ Range(reads) :
             disk[p] = pre[p] /\ p \notin Range(writes)
       /\ Cardinality(Range(writes)) = Len(writes)
       /\ fixed_count = Len(writes)
       /\ SubSeq(out, 1, Len(writes))
             = [i \in 1..Len(writes) |-> <<"Fixed", writes[i]>>]
       /\ pc = "loop" => Len(out) = Len(writes)
       /\ pc = "done" => out = SubSeq(out, 1, Len(writes))
                                  \o << <<"Total", Len(writes)>> >>

C6_Witness ==
    /\ pc = "done"
    /\ Len(writes) >= 1
    /\ \E p \in Range(reads) : p \notin Range(writes)
    /\ out[Len(out)] = <<"Total", Len(writes)>>

(***************************************************************************)
(* C7                                                                      *)
(***************************************************************************)
\* C7: files are processed one at a time in traversal order; a failing open
\* aborts the run at that file: no final count line, every earlier file keeps
\* its rewritten text, every later file is neither read nor written; and no
\* run that meets a failing open completes.
C7_AbortNoRollback ==
    /\ \A p \in Range(reads) : p \in Range(todo) => p = Head(todo)
    /\ pc = "aborted" =>
          /\ filepath = Head(todo)
          /\ filepath \in unreadable \cup unwritable
          /\ \A i \in 1..Len(out) : out[i][1] # "Total"
          /\ \A p \in Range(Tail(todo)) :
                /\ disk[p] = pre[p]
                /\ p \notin Range(reads)
                /\ p \notin Range(writes)
          /\ \A p \in Range(reads) \ {filepath} : disk[p] = FixText(pre[p])
          /\ \A p \in Range(writes) : disk[p] # pre[p]
    /\ pc = "done" =>
          \A p \in DOMAIN disk :
             (exists /\ Under(p) /\ IsCandidate(p.name)) =>
                /\ p \notin unreadable
                /\ p \in unwritable => FixText(pre[p]) = pre[p]

C7_Witness ==
    /\ pc = "aborted"
    /\ Len(writes) >= 1
    /\ Len(todo) >= 2
    /\ \E p \in Range(Tail(todo)) : IsCandidate(p.name) /\ FixText(pre[p]) # pre[p]

(***************************************************************************)
(* C8                                                                      *)
(***************************************************************************)
\* the name ends with the characters .ts / .test.ts
HasTsSuffix(n) == \E stem \in {SubSeq(n, 1, k) : k \in 0..Len(n)} :
                     n = stem \o <<".", "t", "s">>

HasTestTsSuffix(n) == \E stem \in {SubSeq(n, 1, k) : k \in 0..Len(n)} :
                         n = stem \o <<".", "t", "e", "s", "t", ".", "t", "s">>

Selected(p) ==
    /\ exists
    /\ Len(p.dir) >= 3
    /\ p.dir[1] = "src" /\ p.dir[2] = "api" /\ p.dir[3] = "routes"
    /\ HasTsSuffix(p.name)
    /\ ~HasTestTsSuffix(p.name)

\* C8: a file is handed to fix_api_route_file iff it lies under routes_dir at
\* any depth, its name ends with .ts and does not end with .test.ts; every
\* other file is never read and never written.
C8_Selection ==
    /\ \A p \in Range(reads) \cup Range(writes) : Selected(p)
    /\ filepath # NoFile => Selected(filepath)
    /\ \A p \in DOMAIN disk : ~Selected(p) => disk[p] = first[p]
    /\ pc = "done" => \A p \in DOMAIN disk : Selected(p) => p \in Range(reads)

C8_Witness ==
    /\ pc = "done"
    /\ File(routes_dir, ATestTs) \in DOMAIN disk
    /\ File(<<"src", "api">>, ATs) \in DOMAIN disk
    /\ reads = << File(routes_dir \o <<"v1">>, TestTs) >>

(***************************************************************************)
(* C9                                                                      *)
(***************************************************************************)
\* C9: after pattern 4 no bare error.message is left inside a catch block,
\* a second or later occurrence in the same block included.
C9_AllInCatchRewritten == pc = "cmp" => BareInside(content) = {}

(***************************************************************************)
(* C10                                                                     *)
(***************************************************************************)
\* the number of leftmost non-overlapping matches of request\.query\.(\w+)
RECURSIVE NumMatchesFrom(_, _)
NumMatchesFrom(s, i) ==
    IF i > Len(s) THEN 0
    ELSE IF MatchAt(s, i, "query")
    THEN 1 + NumMatchesFrom(s, WordRunEnd(s, i + 4) + 1)
    ELSE NumMatchesFrom(s, i + 1)

QueryCast == <<"(", "request", ".", "query", " as QueryParams)", ".">>

\* the text with every (request.query as QueryParams). cast taken back
RECURSIVE UncastFrom(_, _)
UncastFrom(s, i) ==
    IF i > Len(s) THEN << >>
    ELSE IF OccursAt(s, QueryCast, i)
    THEN <<"request", ".", "query", ".">> \o UncastFrom(s, i + Len(QueryCast))
    ELSE <<s[i]>> \o UncastFrom(s, i + 1)

Next ==
    \/ Walk
    \/ NextFile
    \/ ReadFile
    \/ ApplyPattern1
    \/ ApplyPattern2Inject
    \/ ApplyPattern2Replace
    \/ ApplyPattern3
    \/ ApplyPattern4
    \/ WriteBack
    \/ Report
    \/ Rerun

Spec == Init /\ [][Next]_vars

EngineSpec == EngineInit /\ [][Next]_vars

=============================================================================
